---- MODULE Spec2Model ----
(***************************************************************************)
(* A model of mosaicify's mosaic() (src/src/mosaic.rs): target             *)
(* preprocessing, the source library build, the shuffled grid traversal    *)
(* with the parallel nearest-tile scan, duplicate avoidance and the canvas *)
(* paste.                                                                  *)
(*                                                                         *)
(* Vectors are functions on 0..n-1 so that tile indices are the Rust       *)
(* indices.  A pixel is one intensity; the feature map is the one of the   *)
(* gray colour space (one component per pixel), for which the per-pixel    *)
(* Euclidean norm is an exact integer.                                     *)
(***************************************************************************)
EXTENDS Integers, Sequences, FiniteSets, TLC

\* ---------------------------------------------------------------- bounds
MaxSide == 2
MaxGrid == 2
MaxCells == 4
MaxN == 2

\* Pixel intensities
Colours == {0, 1}

\* ---------------------------------------------------------------- vectors
VecLen(v) == Cardinality(DOMAIN v)

EmptyVec == [i \in {} |-> 0]

Push(v, e) == [i \in 0..VecLen(v) |-> IF i < VecLen(v) THEN v[i] ELSE e]

Min(a, b) == IF a < b THEN a ELSE b

\* The sum of f over the set S
RECURSIVE SumOver(_, _)
SumOver(S, f) ==
    IF S = {} THEN 0
    ELSE LET e == CHOOSE e \in S : TRUE IN f[e] + SumOver(S \ {e}, f)

ISqrt(n) == CHOOSE r \in 0..n : r * r <= n /\ (r + 1) * (r + 1) > n

\* ---------------------------------------------------------------- images
Positions(w, h) == (0..(w - 1)) \X (0..(h - 1))

NoImage == [w |-> 0, h |-> 0, px |-> [p \in {} |-> 0]]

\* A decoded target: a w x h image whose pixels alternate from phase c.
DecodeTarget(w, h, c) ==
    [w |-> w, h |-> h,
     px |-> [p \in Positions(w, h) |-> (c + p[1] + p[2]) % Cardinality(Colours)]]

\* A decoded source image: one pixel of colour c.
DecodeSource(c) == [w |-> 1, h |-> 1, px |-> [p \in Positions(1, 1) |-> c]]

\* imageops::resize: an image of exactly nwidth x nheight; an empty input
\* gives a blank image, otherwise every output pixel is sampled from the
\* input (the filter's weights are abstracted to the nearest input pixel).
Resize(img, nwidth, nheight) ==
    [w |-> nwidth, h |-> nheight,
     px |-> [p \in Positions(nwidth, nheight) |->
               IF img.w = 0 \/ img.h = 0 THEN 0
               ELSE img.px[<<(p[1] * img.w) \div nwidth,
                             (p[2] * img.h) \div nheight>>]]]

\* imageops::crop_imm(..).to_image(): the rectangle, clamped to the image.
CropImm(img, x, y, width, height) ==
    LET cx == Min(x, img.w)
        cy == Min(y, img.h)
        cw == Min(width, img.w - cx)
        ch == Min(height, img.h - cy)
    IN [w |-> cw, h |-> ch,
        px |-> [p \in Positions(cw, ch) |-> img.px[<<cx + p[1], cy + p[2]>>]]]

\* imageops::replace: top's pixels overwrite bottom's at offset (x, y),
\* clipped to bottom.
Replace(bottom, top, x, y) ==
    [bottom EXCEPT !.px =
        [p \in Positions(bottom.w, bottom.h) |->
            IF /\ x <= p[1] /\ p[1] < x + top.w
               /\ y <= p[2] /\ p[2] < y + top.h
            THEN top.px[<<p[1] - x, p[2] - y>>]
            ELSE bottom.px[p]]]

\* rgb2gray: tmp[x][y] = luma.to_vec(); len is the width, len0 the height
\* of column 0 (absent when the width is 0).
ColorSpace(img) ==
    [len |-> img.w, len0 |-> img.h,
     v |-> [p \in Positions(img.w, img.h) |-> <<img.px[p]>>]]

\* sqrt of the sum of squared component differences of two feature vectors
\* (zip stops at the shorter one).
PixelNorm(fa, fb) ==
    LET n == Min(Len(fa), Len(fb))
        sq == [k \in 1..n |-> (fa[k] - fb[k]) * (fa[k] - fb[k])]
    IN ISqrt(SumOver(1..n, sq))

\* similarity(): None on a dimension mismatch, an index panic on a[0] when
\* both maps have no column, else the sum of the per-pixel norms.
Similarity(a, b) ==
    IF a.len # b.len THEN [kind |-> "none", s |-> 0]
    ELSE IF a.len = 0 THEN [kind |-> "panic", s |-> 0]
    ELSE IF a.len0 # b.len0 THEN [kind |-> "none", s |-> 0]
    ELSE [kind |-> "some",
          s |-> SumOver(Positions(a.len, a.len0),
                        [p \in Positions(a.len, a.len0) |-> PixelNorm(a.v[p], b.v[p])])]

\* ---------------------------------------------------------------- state
VARIABLES
    row_size, col_size, avoid_duplicates,  \* mosaic()'s arguments
    pc,            \* position in mosaic()
    err,           \* the panic message of an aborted run, "" otherwise
    target,        \* the target image: decoded, then the resized canvas
    orig,          \* history: the canvas as resized, before any paste
    width, height, \* block geometry
    entries,       \* the source directory's entries
    next_entry,    \* the entry read_images_from_directory is at
    read_images,   \* read_images_from_directory's local vector
    images,        \* the decoded sources it returned
    built,         \* results of the finished map tasks of the library build
    tiles,         \* the collected (img, col) vector
    used,          \* BTreeSet of tile indices
    block_index,   \* the shuffled cells still to visit
    cur,           \* (y, x) of the cell being processed
    block_image,   \* the cropped block
    pending,       \* tile indices whose scan closure has not run yet
    results,       \* (score, index) pairs the scan closures returned
    best,          \* the pair min_by returned
    saved,         \* the output file was written
    log            \* history: one record per cell entered

vars == <<row_size, col_size, avoid_duplicates, pc, err, target, orig, width,
          height, entries, next_entry, read_images, images, built, tiles, used, block_index, cur,
          block_image, pending, results, best, saved, log>>

args == <<row_size, col_size, avoid_duplicates>>
geom == <<width, height>>
lib == <<entries, next_entry, read_images, images, built, tiles>>
scan == <<cur, block_image, pending, results, best>>

NoCell == <<-1, -1>>
NoBest == <<-1, -1>>

Init ==
    /\ row_size \in 0..MaxGrid
    /\ col_size \in 0..MaxGrid
    /\ row_size * col_size <= MaxCells
    /\ avoid_duplicates \in BOOLEAN
    /\ pc = "open_target"
    /\ err = ""
    /\ target = NoImage
    /\ orig = NoImage
    /\ width = 0
    /\ height = 0
    /\ entries = <<>>
    /\ next_entry = 1
    /\ read_images = EmptyVec
    /\ images = EmptyVec
    /\ built = EmptyVec
    /\ tiles = EmptyVec
    /\ used = {}
    /\ block_index = <<>>
    /\ cur = NoCell
    /\ block_image = NoImage
    /\ pending = {}
    /\ results = {}
    /\ best = NoBest
    /\ saved = FALSE
    /\ log = <<>>

\* A panic: the run ends with the message, every other variable as it was.
Abort(msg) ==
    /\ pc' = "aborted"
    /\ err' = msg
    /\ UNCHANGED <<args, target, orig, geom, lib, used, block_index, scan, saved, log>>

\* ---------------------------------------------------------------- [1/3]
\* ImageReader::open(target).decode().into_rgb32f(), or the expect's panic.
OpenTarget ==
    /\ pc = "open_target"
    /\ \/ Abort("Failed to open the target image.")
       \/ \E w \in 1..MaxSide, h \in 1..MaxSide, c \in Colours :
            /\ target' = DecodeTarget(w, h, c)
            /\ pc' = "geometry"
            /\ UNCHANGED <<args, err, orig, geom, lib, used, block_index, scan, saved, log>>

\* width = target.width() / row_size; height = target.height() / col_size
Geometry ==
    /\ pc = "geometry"
    /\ IF row_size = 0 \/ col_size = 0
       THEN Abort("attempt to divide by zero")
       ELSE /\ width' = target.w \div row_size
            /\ height' = target.h \div col_size
            /\ pc' = "resize_target"
            /\ UNCHANGED <<args, err, target, orig, lib, used, block_index, scan, saved, log>>

ResizeTarget ==
    /\ pc = "resize_target"
    /\ target' = Resize(target, width * row_size, height * col_size)
    /\ orig' = target'
    /\ pc' = "read_dir"
    /\ UNCHANGED <<args, err, geom, lib, used, block_index, scan, saved, log>>

\* ---------------------------------------------------------------- [2/3]
ReadFailed == Abort("Failed to read images from the directory.")

\* A directory entry decodes to an image (of one colour) or does not.
Entries ==
    {[ok |-> TRUE, colour |-> c] : c \in Colours} \cup {[ok |-> FALSE, colour |-> 0]}

\* The directories read_dir can list.
Directories == UNION {[1..n -> Entries] : n \in 0..MaxN}

\* fs::read_dir(directory)?
ReadDir ==
    /\ pc = "read_dir"
    /\ \/ ReadFailed
       \/ /\ entries' \in Directories
          /\ next_entry' = 1
          /\ read_images' = EmptyVec
          /\ pc' = "read_entry"
          /\ UNCHANGED <<args, err, target, orig, geom, images, built, tiles, used,
                         block_index, scan, saved, log>>

\* Faulty variant of OpenEntry: an entry that fails is skipped.
OpenEntrySkipsBad(e) ==
    IF e.ok THEN [kind |-> "ok", img |-> DecodeSource(e.colour)]
    ELSE [kind |-> "skip", img |-> NoImage]

\* ImageReader::open(path)?.decode()?.into_rgb32f() on one entry
OpenEntry(e) ==
    IF e.ok THEN [kind |-> "ok", img |-> DecodeSource(e.colour)]
    ELSE [kind |-> "err", img |-> NoImage]

\* One turn of the loop over the directory: the entry decodes and is
\* pushed, or it fails and the function returns the error; after the last
\* entry the vector is returned.
ReadEntry ==
    /\ pc = "read_entry"
    /\ IF next_entry > Len(entries)
       THEN /\ images' = read_images
            /\ pc' = "build"
            /\ UNCHANGED <<args, err, target, orig, geom, entries, next_entry,
                           read_images, built, tiles, used, block_index, scan, saved, log>>
       ELSE LET r == OpenEntry(entries[next_entry]) IN
            IF r.kind = "err"
            THEN ReadFailed
            ELSE /\ next_entry' = next_entry + 1
                 /\ read_images' = IF r.kind = "ok" THEN Push(read_images, r.img)
                                   ELSE read_images
                 /\ UNCHANGED <<args, pc, err, target, orig, geom, entries, images,
                                built, tiles, used, block_index, scan, saved, log>>

\* The closure of the library's par_iter().map(): resize, then colour space.
BuildTile(img) ==
    LET r == Resize(img, width, height) IN [img |-> r, col |-> ColorSpace(r)]

\* One map task of the parallel library build finishes.
BuildTask(i) ==
    /\ pc = "build"
    /\ i \in DOMAIN images
    /\ i \notin DOMAIN built
    /\ built' = [j \in DOMAIN built \cup {i} |-> IF j = i THEN BuildTile(images[i]) ELSE built[j]]
    /\ UNCHANGED <<args, pc, err, target, orig, geom, entries, next_entry, read_images, images, tiles, used,
                   block_index, scan, saved, log>>

\* Faulty variant of Collected: the results come back in the opposite order.
CollectedReversed == [i \in DOMAIN built |-> built[VecLen(built) - 1 - i]]

\* collect::<Vec<_>>() of the indexed parallel iterator: the result of the
\* task on images[i] at index i, whatever order the tasks finished in.
Collected == built

\* collect::<Vec<_>>() once every task is done; used = BTreeSet::new()
Collect ==
    /\ pc = "build"
    /\ DOMAIN built = DOMAIN images
    /\ tiles' = Collected
    /\ used' = {}
    /\ pc' = "shuffle"
    /\ UNCHANGED <<args, err, target, orig, geom, entries, next_entry, read_images, images, built,
                   block_index, scan, saved, log>>

\* ---------------------------------------------------------------- [3/3]
\* iproduct!(0..col_size, 0..row_size): the pairs (y, x)
GridCells == (0..(col_size - 1)) \X (0..(row_size - 1))

\* Faulty variant of Shuffles: cells drawn with replacement.
ShufflesWithRepeats(S) == [1..Cardinality(S) -> S]

\* block_index.shuffle(): every order of the cells
Shuffles(S) ==
    {s \in [1..Cardinality(S) -> S] : \A i, j \in DOMAIN s : i # j => s[i] # s[j]}

Shuffle ==
    /\ pc = "shuffle"
    /\ block_index' \in Shuffles(GridCells)
    /\ pc' = "loop_head"
    /\ UNCHANGED <<args, err, target, orig, geom, lib, used, scan, saved, log>>

\* Faulty variant of NeedsClear: the comparison is off by one.
NeedsClearOffByOne == avoid_duplicates /\ Cardinality(used) > VecLen(tiles)

\* avoid_duplicates && used.len() == images.len()
NeedsClear == avoid_duplicates /\ Cardinality(used) = VecLen(tiles)

\* Faulty variant of OffsetX: the column offset counts block heights.
OffsetXByHeight(x) == x * height

\* Pixel offset of cell (y, x)
OffsetX(x) == x * width
OffsetY(y) == y * height

\* The canvas rectangle crop_imm and replace address for cell c = (y, x)
CellRect(c) ==
    (OffsetX(c[2])..(OffsetX(c[2]) + width - 1)) \X (OffsetY(c[1])..(OffsetY(c[1]) + height - 1))

\* Faulty variant of PasteAt: the two offsets are swapped.
PasteAtSwapped == <<cur[1] * width, cur[2] * height>>

\* (x * width, y * height) of the current cell, where replace writes
PasteAt == <<OffsetX(cur[2]), OffsetY(cur[1])>>

\* The head of the for loop: the next cell, and used.clear() if needed; or
\* the loop ends.
LoopHead ==
    /\ pc = "loop_head"
    /\ IF block_index = <<>>
       THEN /\ pc' = "save"
            /\ UNCHANGED <<args, err, target, orig, geom, lib, used, block_index, scan,
                           saved, log>>
       ELSE /\ cur' = Head(block_index)
            /\ block_index' = Tail(block_index)
            /\ used' = IF NeedsClear THEN {} ELSE used
            /\ log' = Append(log, [cell |-> Head(block_index), before |-> used,
                                   cleared |-> NeedsClear, after |-> used',
                                   block |-> NoImage, ran |-> {}, idx |-> -1,
                                   inserted |-> FALSE, pasted |-> FALSE])
            /\ pc' = "crop"
            /\ UNCHANGED <<args, err, target, orig, geom, lib, block_image, pending,
                           results, best, saved>>

\* crop_imm(&target, x * width, y * height, width, height).to_image(), and
\* the scan's par_iter() starts over every tile.
Crop ==
    /\ pc = "crop"
    /\ block_image' = CropImm(target, OffsetX(cur[2]), OffsetY(cur[1]), width, height)
    /\ pending' = DOMAIN tiles
    /\ results' = {}
    /\ log' = [log EXCEPT ![Len(log)].block = block_image']
    /\ pc' = "scan"
    /\ UNCHANGED <<args, err, target, orig, geom, lib, used, block_index, cur, best, saved>>

\* Faulty variant of FilterMap: the used set is not consulted.
FilterMapIgnoresUsed(i) == Similarity(ColorSpace(block_image), tiles[i].col)

\* The filter_map closure on tile i.
FilterMap(i) ==
    IF avoid_duplicates /\ i \in used
    THEN [kind |-> "none", s |-> 0]
    ELSE Similarity(ColorSpace(block_image), tiles[i].col)

\* One worker runs the closure on one tile; a panic in it ends the run.
Worker(i) ==
    /\ pc = "scan"
    /\ i \in pending
    /\ LET r == FilterMap(i) IN
         IF r.kind = "panic"
         THEN Abort("index out of bounds")
         ELSE /\ pending' = pending \ {i}
              /\ results' = IF r.kind = "some" THEN results \cup {<<r.s, i>>} ELSE results
              /\ log' = [log EXCEPT ![Len(log)].ran = @ \cup {i}]
              /\ UNCHANGED <<args, pc, err, target, orig, geom, lib, used, block_index,
                             cur, block_image, best, saved>>

\* min_by over the scores: the pairs no other pair is smaller than.
MinBy(rs) == {r \in rs : \A q \in rs : r[1] <= q[1]}

\* Faulty variant of Reduce: the reduction returns as soon as one score is in.
ReduceEarly ==
    /\ pc = "scan"
    /\ results # {}
    /\ \E r \in MinBy(results) :
         /\ best' = r
         /\ log' = [log EXCEPT ![Len(log)].idx = r[2]]
         /\ pc' = "insert"
         /\ UNCHANGED <<args, err, target, orig, geom, lib, used, block_index, cur,
                        block_image, pending, results, saved>>

\* The reduction returns once every closure has run: a minimal pair, or
\* the expect's panic when nothing was returned.
Reduce ==
    /\ pc = "scan"
    /\ pending = {}
    /\ IF results = {}
       THEN Abort("Failed to find the best matching image.")
       ELSE \E r \in MinBy(results) :
              /\ best' = r
              /\ log' = [log EXCEPT ![Len(log)].idx = r[2]]
              /\ pc' = "insert"
              /\ UNCHANGED <<args, err, target, orig, geom, lib, used, block_index, cur,
                             block_image, pending, results, saved>>

\* Faulty variant of Insert: the selected index is not recorded.
InsertSkipped ==
    /\ pc = "insert"
    /\ used' = used
    /\ log' = [log EXCEPT ![Len(log)].inserted = TRUE]
    /\ pc' = "paste"
    /\ UNCHANGED <<args, err, target, orig, geom, lib, block_index, scan, saved>>

\* if avoid_duplicates { used.insert(idx); }
Insert ==
    /\ pc = "insert"
    /\ used' = IF avoid_duplicates THEN used \cup {best[2]} ELSE used
    /\ log' = [log EXCEPT ![Len(log)].inserted = TRUE]
    /\ pc' = "paste"
    /\ UNCHANGED <<args, err, target, orig, geom, lib, block_index, scan, saved>>

\* replace(&mut target, best, x * width, y * height)
Paste ==
    /\ pc = "paste"
    /\ target' = Replace(target, tiles[best[2]].img, PasteAt[1], PasteAt[2])
    /\ log' = [log EXCEPT ![Len(log)].pasted = TRUE]
    /\ pc' = "loop_head"
    /\ UNCHANGED <<args, err, orig, geom, lib, used, block_index, scan, saved>>

\* DynamicImage::ImageRgb32F(target).to_rgb8().save(output), or its panic
Save ==
    /\ pc = "save"
    /\ \/ Abort("Failed to save the mosaic image.")
       \/ /\ saved' = TRUE
          /\ pc' = "done"
          /\ UNCHANGED <<args, err, target, orig, geom, lib, used, block_index, scan, log>>

Next ==
    \/ OpenTarget
    \/ Geometry
    \/ ResizeTarget
    \/ ReadDir
    \/ ReadEntry
    \/ \E i \in 0..(MaxN - 1) : BuildTask(i)
    \/ Collect
    \/ Shuffle
    \/ LoopHead
    \/ Crop
    \/ \E i \in 0..(MaxN - 1) : Worker(i)
    \/ Reduce
    \/ Insert
    \/ Paste
    \/ Save

Spec == Init /\ [][Next]_vars

\* ------------------------------------------------ the scan on any library
\* The traversal of lines 98-124 entered with a library whose tiles have any
\* dimensions up to MaxSide, not only the block's: the input domain of
\* similarity()'s dimension check.  mosaic() itself builds every tile at
\* block size (TileDimsMatchBlock holds under Spec).
AnyTile(c, w, h) ==
    LET r == Resize(DecodeSource(c), w, h) IN [img |-> r, col |-> ColorSpace(r)]

AnyLibraries ==
    UNION {[0..(n - 1) -> {AnyTile(c, w, h) : c \in Colours, w \in 1..MaxSide, h \in 1..MaxSide}]
             : n \in 0..MaxN}

InitScan ==
    /\ row_size \in 1..MaxGrid
    /\ col_size = 1
    /\ avoid_duplicates \in BOOLEAN
    /\ width \in 1..MaxSide
    /\ height \in 1..MaxSide
    /\ target = DecodeTarget(width * row_size, height * col_size, 0)
    /\ orig = target
    /\ tiles \in AnyLibraries
    /\ block_index \in Shuffles(GridCells)
    /\ pc = "loop_head"
    /\ err = ""
    /\ entries = <<>>
    /\ next_entry = 1
    /\ read_images = EmptyVec
    /\ images = EmptyVec
    /\ built = tiles
    /\ used = {}
    /\ cur = NoCell
    /\ block_image = NoImage
    /\ pending = {}
    /\ results = {}
    /\ best = NoBest
    /\ saved = FALSE
    /\ log = <<>>

NextScan ==
    \/ LoopHead
    \/ Crop
    \/ \E i \in 0..(MaxN - 1) : Worker(i)
    \/ Reduce
    \/ Insert
    \/ Paste
    \/ Save

SpecScan == InitScan /\ [][NextScan]_vars

\* ---------------------------------------------------------------- stages
\* The block geometry has been computed (lines 65-66 were passed).
GeometryDone ==
    /\ pc \notin {"open_target", "geometry"}
    /\ err \notin {"Failed to open the target image.", "attempt to divide by zero"}

\* The target has been resized to the working canvas (line 68 was passed).
CanvasReady == GeometryDone /\ pc # "resize_target"

\* read_images_from_directory has returned its vector (line 73 was passed).
LibraryRead ==
    \/ pc \in {"build", "shuffle", "loop_head", "crop", "scan", "insert", "paste",
               "save", "done"}
    \/ err \in {"index out of bounds", "Failed to find the best matching image.",
                "Failed to save the mosaic image."}

\* The library build has been collected (line 88 was passed).
TilesCollected == LibraryRead /\ pc # "build"

\* The cell whose log record is k has had its block cropped.
Cropped(k) == k < Len(log) \/ pc # "crop"

\* The loop-head record of the last used.clear() at or before cell k (1 if
\* there was none), and the indices inserted from there to cell k.
EpochStart(k) ==
    LET S == {j \in 1..k : log[j].cleared}
    IN IF S = {} THEN 1 ELSE CHOOSE j \in S : \A i \in S : i <= j

SelectedSince(k) == {log[j].idx : j \in {i \in EpochStart(k)..k : log[i].inserted}}

\* The cells processed (selected, inserted and pasted) so far, and how many
\* of them tile i was selected for.
Processed == {k \in 1..Len(log) : log[k].pasted}

UsageCount(i) == Cardinality({k \in Processed : log[k].idx = i})

\* The distance score of tile j to a block.
Score(block, j) == Similarity(ColorSpace(block), tiles[j].col).s

\* The feature map of a tile and a block differ in a dimension.
Mismatch(block, tile) == tile.col.len # block.w \/ tile.col.len0 # block.h

\* In mosaic() every tile compared has the dimensions of the block.
TileDimsMatchBlock ==
    \A k \in 1..Len(log) :
      Cropped(k) => \A i \in DOMAIN tiles : ~Mismatch(log[k].block, tiles[i])

\* ---------------------------------------------------------------- claims

\* C1: with avoid_duplicates, used is cleared exactly at the head of a cell
\* where its size equals the library size, and at no other moment (it always
\* holds exactly the indices inserted since the last such clear); between
\* two clears no index is selected for two cells; with one tile and two
\* cells the set is cleared before the second cell and both select tile 0.
C1_ClearExactlyWhenFull ==
    avoid_duplicates =>
      /\ \A k \in 1..Len(log) :
           /\ log[k].cleared <=> (Cardinality(log[k].before) = VecLen(tiles))
           /\ log[k].after = IF log[k].cleared THEN {} ELSE log[k].before
           /\ k > 1 => log[k].before = SelectedSince(k - 1)
      /\ Len(log) > 0 => used = SelectedSince(Len(log))
      /\ \A i, j \in 1..Len(log) :
           (i < j /\ EpochStart(j) <= i /\ log[i].idx # -1 /\ log[j].idx # -1)
             => log[i].idx # log[j].idx
      /\ (VecLen(tiles) = 1 /\ Len(log) = 2 /\ log[2].idx # -1)
           => (~log[1].cleared /\ log[2].cleared /\ log[1].idx = 0 /\ log[2].idx = 0)

C1_Witness ==
    /\ avoid_duplicates
    /\ VecLen(tiles) = 1
    /\ pc = "done"
    /\ Len(log) = 2
    /\ log[2].cleared
    /\ log[1].idx = 0
    /\ log[2].idx = 0

\* C2: the traversal visits no cell twice and only cells of the grid; when
\* the loop has ended every cell (y, x), y < col_size, x < row_size, has
\* been scanned over the whole library and pasted exactly once.
C2_EveryCellOnce ==
    LET Grid == (0..(col_size - 1)) \X (0..(row_size - 1))
        visited == {log[k].cell : k \in 1..Len(log)}
    IN /\ \A i, j \in 1..Len(log) : i # j => log[i].cell # log[j].cell
       /\ visited \subseteq Grid
       /\ pc \in {"save", "done"} =>
            /\ visited = Grid
            /\ Len(log) = row_size * col_size
            /\ \A k \in 1..Len(log) : log[k].pasted /\ log[k].ran = DOMAIN tiles

C2_Witness ==
    /\ pc = "done"
    /\ row_size = 2
    /\ col_size = 2
    /\ Len(log) = 4
    /\ log[1].cell = <<1, 0>>
    /\ log[2].cell = <<0, 1>>

\* C3: the tile the reduction has selected for a cell (the run is between
\* min_by's return and the paste) is a candidate (avoidance off, or its
\* index outside used at the scan) whose score no other candidate's is
\* below, and every pasted cell is filled with the tile selected for it.
C3_MinCandidate ==
    /\ pc \in {"insert", "paste"} =>
         LET r == log[Len(log)]
             candidates == IF avoid_duplicates THEN DOMAIN tiles \ r.after ELSE DOMAIN tiles
             score == [j \in candidates |-> Score(r.block, j)]
         IN /\ r.idx \in candidates
            /\ \A j \in candidates : score[r.idx] <= score[j]
    /\ \A k \in 1..Len(log) :
         log[k].pasted =>
           CropImm(target, log[k].cell[2] * width, log[k].cell[1] * height, width, height)
             = tiles[log[k].idx].img

\* A used tile scores strictly better than the tile selected.
C3_Witness ==
    /\ avoid_duplicates
    /\ \E k \in 1..Len(log) :
         /\ log[k].pasted
         /\ \E j \in log[k].after : Score(log[k].block, j) < Score(log[k].block, log[k].idx)

\* C4: with a degenerate grid (row_size or col_size 0, or a block dimension
\* of 0) or an empty library, the run fails before any processing: no tile
\* is resized, no cell is entered, the loop never ends normally.
C4_ConfigErrorBeforeProcessing ==
    (\/ row_size = 0
     \/ col_size = 0
     \/ (GeometryDone /\ (width = 0 \/ height = 0))
     \/ (LibraryRead /\ VecLen(images) = 0))
      => /\ built = EmptyVec
         /\ log = <<>>
         /\ pc \notin {"save", "done"}
         /\ ~saved

C6_AlwaysACandidate ==
    avoid_duplicates =>
      /\ pc \in {"crop", "scan"} => \E i \in DOMAIN tiles : i \notin used
      /\ err # "Failed to find the best matching image."

\* C7: when an entry of the source directory fails to decode, nothing is
\* returned and the run aborts: no library, no tile, no cell, no output.
C7_NoPartialLibrary ==
    (\E k \in 1..Len(entries) : ~entries[k].ok) =>
      /\ images = EmptyVec
      /\ built = EmptyVec
      /\ tiles = EmptyVec
      /\ log = <<>>
      /\ target = orig
      /\ ~saved
      /\ pc \in {"read_entry", "aborted"}
      /\ pc = "aborted" => err = "Failed to read images from the directory."

\* The failing entry comes after one that decoded.
C7_Witness ==
    /\ pc = "aborted"
    /\ VecLen(read_images) >= 1
    /\ \E k \in 1..Len(entries) : ~entries[k].ok

\* C8: with both block dimensions positive, the cells' rectangles are
\* pairwise disjoint and their union is the whole working canvas, of
\* (width * row_size) x (height * col_size) pixels.
C8_CellsPartitionCanvas ==
    /\ pc = "resize_target" =>
         (width = target.w \div row_size /\ height = target.h \div col_size)
    /\ (CanvasReady /\ width > 0 /\ height > 0) =>
         /\ \A c, d \in GridCells : c # d => CellRect(c) \cap CellRect(d) = {}
         /\ UNION {CellRect(c) : c \in GridCells} = DOMAIN target.px
         /\ target.w = width * row_size
         /\ target.h = height * col_size
         /\ DOMAIN target.px = Positions(width * row_size, height * col_size)

C8_Witness ==
    /\ CanvasReady
    /\ row_size = 2
    /\ col_size = 2
    /\ width = 1
    /\ height = 1
    /\ pc = "done"

\* C9: the canvas pixels of every cell not yet pasted are those of the
\* resized target, and every block cropped is original target content.
C9_UnvisitedCellsOriginal ==
    CanvasReady =>
      /\ \A c \in (0..(col_size - 1)) \X (0..(row_size - 1)) :
           (\A k \in 1..Len(log) : log[k].cell = c => ~log[k].pasted) =>
             \A p \in ((c[2] * width)..(c[2] * width + width - 1))
                        \X ((c[1] * height)..(c[1] * height + height - 1)) :
               /\ p \in DOMAIN target.px
               /\ target.px[p] = orig.px[p]
      /\ \A k \in 1..Len(log) :
           Cropped(k) =>
             log[k].block = CropImm(orig, log[k].cell[2] * width,
                                    log[k].cell[1] * height, width, height)

\* A pasted cell differs from the original while another cell is still to
\* visit.
C9_Witness ==
    /\ pc = "loop_head"
    /\ target # orig
    /\ block_index # <<>>
    /\ log # <<>>

\* C10: while the scan of a cell runs nothing writes the canvas or used;
\* a write to either (checked from the loop on) happens with every closure
\* of the cell's scan done, and a cell is entered only after the cell
\* before it was inserted and pasted.
C10_StateOrder ==
    \A k \in 1..Len(log) :
      /\ (log[k].idx # -1 \/ log[k].inserted \/ log[k].pasted) => log[k].ran = DOMAIN tiles
      /\ log[k].pasted => log[k].inserted
      /\ k < Len(log) => log[k].pasted
      /\ (pc = "scan" /\ k = Len(log)) =>
           (~log[k].inserted /\ ~log[k].pasted /\ log[k].ran = DOMAIN tiles \ pending)

C10_StepOrder ==
    /\ pc = "scan" => (target' = target /\ used' = used)
    /\ (pc \in {"loop_head", "crop", "scan", "insert", "paste"}
        /\ (target' # target \/ ~(used' \subseteq used)))
         => (pc \in {"insert", "paste"} /\ pending = {}
             /\ log[Len(log)].ran = DOMAIN tiles)

\* C10: the state order and the step order above hold throughout every run.
C10_WritesAfterScan == [](C10_StateOrder) /\ [][C10_StepOrder]_vars

\* In the second cell's scan one closure has run and another has not.
C10_Witness ==
    /\ pc = "scan"
    /\ Len(log) = 2
    /\ pending = {0}
    /\ log[2].ran = {1}

\* C11: the library is read in the directory's order, every finished build
\* task holds the tile of its own source image whatever tasks finished
\* before it, and from the collect on the tile list has the length of the
\* source list with tile i built from source image i, for the rest of the
\* run; used only ever holds indices of that list.
C11_TilesKeepSourceOrder ==
    /\ LibraryRead =>
         /\ DOMAIN images = 0..(Len(entries) - 1)
         /\ \A i \in DOMAIN images : images[i] = DecodeSource(entries[i + 1].colour)
    /\ \A i \in DOMAIN built : i \in DOMAIN images /\ built[i] = BuildTile(images[i])
    /\ TilesCollected =>
         /\ DOMAIN tiles = DOMAIN images
         /\ \A i \in DOMAIN tiles : tiles[i] = BuildTile(images[i])
    /\ used \subseteq DOMAIN tiles

\* The task on the second of two different source images has finished
\* before the task on the first, and its tile sits at index 1.
C11_Witness ==
    /\ pc = "build"
    /\ VecLen(images) = 2
    /\ images[0] # images[1]
    /\ width > 0
    /\ height > 0
    /\ DOMAIN built = {1}
    /\ built[1] = BuildTile(images[1])
    /\ built[1] # BuildTile(images[0])

\* C12: with avoid_duplicates and N >= 1 tiles, after k processed cells
\* every tile has been selected floor(k/N) or ceil(k/N) times, so two usage
\* counts differ by at most 1; used is a subset of 0..N-1 and holds exactly
\* the indices inserted since the last clear; without avoid_duplicates used
\* stays empty.
C12_BalancedUsage ==
    LET N == VecLen(tiles)
        k == Cardinality(Processed)
    IN /\ (avoid_duplicates /\ N >= 1 /\ TilesCollected) =>
            /\ \A i \in 0..(N - 1) :
                 UsageCount(i) \in {k \div N, (k + N - 1) \div N}
            /\ \A i, j \in 0..(N - 1) : UsageCount(i) - UsageCount(j) <= 1
       /\ avoid_duplicates =>
            /\ used \subseteq 0..(N - 1)
            /\ used = IF log = <<>> THEN {} ELSE SelectedSince(Len(log))
       /\ ~avoid_duplicates => used = {}

\* Three cells processed over two tiles: one tile used twice, the other
\* once, the set cleared once in between.
C12_Witness ==
    /\ avoid_duplicates
    /\ VecLen(tiles) = 2
    /\ Cardinality(Processed) = 3
    /\ UsageCount(0) = 2
    /\ UsageCount(1) = 1
    /\ used = {0}
    /\ pc = "loop_head"

====
